---- MODULE Spec2Model ----
(***************************************************************************)
(* Model of src/app.py: the LINE fortune bot's turn pipeline               *)
(* (handle_text_message -> handle_user_message -> estimate_category,       *)
(* contains_critical_keywords, get_gemini_response, save_conversation_log).*)
(*                                                                         *)
(* Text.  A Python str is a sequence of fragments.  A user message is a    *)
(* sequence of single characters; a character outside ASCII is written as  *)
(* its code point ("u6B7B" is U+6B7B), the original is in the comment      *)
(* beside it.  A fixed sentence of the program (a fallback, the escalation *)
(* sentence) is one fragment, named by its romanised reading.  f-string    *)
(* interpolation and + are \o, `k in s` is contiguous-subsequence search,  *)
(* s.lower() maps each character, s.strip() drops the whitespace fragments *)
(* at both ends.                                                           *)
(***************************************************************************)
EXTENDS Naturals, Sequences, FiniteSets

(***************************************************************************)
(* Bounds of the model.                                                    *)
(***************************************************************************)
\* number of turns (webhook invocations) that may be in progress at once
MaxTurns == 2
\* longest text handed to estimate_category in SpecCategory
MaxLen == 3

(***************************************************************************)
(* Python values.                                                          *)
(***************************************************************************)
\* os.getenv(name) of an unset variable
None == "<None>"
\* truth value of an Optional[str]: None and '' are falsy
Truthy(v) == v # None /\ v # ""

Whitespace == {" ", "\n", "\t"}

\* str.lower(), character by character; only cased characters change
LowerChar(c) ==
  CASE c = "A" -> "a"
    [] c = "B" -> "b"
    [] OTHER -> c

Lower(text) == [i \in 1..Len(text) |-> LowerChar(text[i])]

\* keyword in text
Contains(keyword, text) ==
  \E i \in 0..(Len(text) - Len(keyword)) :
    \A j \in 1..Len(keyword) : text[i + j] = keyword[j]

\* any(keyword in text for keyword in keywords)
AnyKeywordIn(keywords, text) ==
  \E n \in 1..Len(keywords) : Contains(keywords[n], text)

RECURSIVE LStrip(_)
LStrip(text) ==
  IF text # <<>> /\ Head(text) \in Whitespace THEN LStrip(Tail(text)) ELSE text

RECURSIVE RStrip(_)
RStrip(text) ==
  IF text # <<>> /\ text[Len(text)] \in Whitespace
    THEN RStrip(SubSeq(text, 1, Len(text) - 1))
    ELSE text

\* str.strip()
Strip(text) == RStrip(LStrip(text))

(***************************************************************************)
(* Module-level configuration and tables (src/app.py 43-96).               *)
(***************************************************************************)
\* line 46: default of SHOP_NAME, 黒猫の占い館
DefaultShopName == <<"Kuroneko no uranai-kan">>
\* line 47: default of RESERVATION_URL
DefaultReservationUrl == <<"https://example.com/reserve">>

\* line 87
CRITICAL_KEYWORDS ==
  <<
    <<"u4E0D", "u502B">>,                            \* 不倫
    <<"u6D6E", "u6C17">>,                            \* 浮気
    <<"u96E2", "u5A5A">>,                            \* 離婚
    <<"u6B7B">>,                                     \* 死
    <<"u81EA", "u6BBA">>,                            \* 自殺
    <<"u81EA", "u50B7">>,                            \* 自傷
    <<"u501F", "u91D1">>,                            \* 借金
    <<"u591A", "u91CD", "u50B5", "u52D9">>,          \* 多重債務
    <<"u8A50", "u6B3A">>,                            \* 詐欺
    <<"u88C1", "u5224">>,                            \* 裁判
    <<"u902E", "u6355">>,                            \* 逮捕
    <<"u72AF", "u7F6A">>,                            \* 犯罪
    <<"u91CD", "u5927", "u306A", "u75C5", "u6C17">>, \* 重大な病気
    <<"u7CBE", "u795E", "u75BE", "u60A3">>,          \* 精神疾患
    <<"u3046", "u3064">>,                            \* うつ
    <<"u30D1", "u30CB", "u30C3", "u30AF">>           \* パニック
  >>

\* lines 88-96: the dict in insertion order, as (label, keywords) pairs.
\* Labels: renai 恋愛, shigoto 仕事, katei 家庭, ningenkankei 人間関係,
\* kinsen 金銭, kenko 健康, sonota その他.
CATEGORY_KEYWORDS ==
  <<
    [category |-> "renai", keywords |->
      << <<"u604B">>,                                \* 恋
         <<"u597D", "u304D">>,                       \* 好き
         <<"u5F7C", "u6C0F">>,                       \* 彼氏
         <<"u5F7C", "u5973">>,                       \* 彼女
         <<"u4ED8", "u304D", "u5408", "u3044">>,     \* 付き合い
         <<"u544A", "u767D">>,                       \* 告白
         <<"u7D50", "u5A5A">>,                       \* 結婚
         <<"u5A5A", "u6D3B">>,                       \* 婚活
         <<"u30C7", "u30FC", "u30C8">> >>],          \* デート
    [category |-> "shigoto", keywords |->
      << <<"u4ED5", "u4E8B">>,                       \* 仕事
         <<"u8077", "u5834">>,                       \* 職場
         <<"u4E0A", "u53F8">>,                       \* 上司
         <<"u540C", "u50DA">>,                       \* 同僚
         <<"u8EE2", "u8077">>,                       \* 転職
         <<"u30AD", "u30E3", "u30EA", "u30A2">>,     \* キャリア
         <<"u6607", "u9032">>,                       \* 昇進
         <<"u7D66", "u4E0E">>,                       \* 給与
         <<"u9000", "u8077">> >>],                   \* 退職
    [category |-> "katei", keywords |->
      << <<"u5BB6", "u65CF">>,                       \* 家族
         <<"u89AA">>,                                \* 親
         <<"u5B50", "u3069", "u3082">>,              \* 子ども
         <<"u592B">>,                                \* 夫
         <<"u59BB">>,                                \* 妻
         <<"u5144", "u5F1F">>,                       \* 兄弟
         <<"u59C9", "u59B9">>,                       \* 姉妹
         <<"u89AA", "u621A">>,                       \* 親戚
         <<"u5AC1">> >>],                            \* 嫁
    [category |-> "ningenkankei", keywords |->
      << <<"u53CB", "u4EBA">>,                       \* 友人
         <<"u53CB", "u9054">>,                       \* 友達
         <<"u4EBA", "u9593", "u95A2", "u4FC2">>,     \* 人間関係
         <<"u3044", "u3058", "u3081">>,              \* いじめ
         <<"u30C8", "u30E9", "u30D6", "u30EB">>,     \* トラブル
         <<"u55A7", "u5629">> >>],                   \* 喧嘩
    [category |-> "kinsen", keywords |->
      << <<"u304A", "u91D1">>,                       \* お金
         <<"u8CAF", "u91D1">>,                       \* 貯金
         <<"u6295", "u8CC7">>,                       \* 投資
         <<"u6D6A", "u8CBB">>,                       \* 浪費
         <<"u7D66", "u4E0E">>,                       \* 給与
         <<"u6607", "u7D66">> >>],                   \* 昇給
    [category |-> "kenko", keywords |->
      << <<"u5065", "u5EB7">>,                       \* 健康
         <<"u75C5", "u6C17">>,                       \* 病気
         <<"u4F53", "u8ABF">>,                       \* 体調
         <<"u30B9", "u30C8", "u30EC", "u30B9">>,     \* ストレス
         <<"u75B2", "u52B4">>,                       \* 疲労
         <<"u7761", "u7720">> >>],                   \* 睡眠
    [category |-> "sonota", keywords |-> <<>>]
  >>

\* line 180 (and line 76): その悩みは私の魔力では見通せない深い霧の中にあるわ。
\* お店にいる先生たちに直接相談することをお勧めするニャ。
EscalationSentence ==
  "Sono nayami wa watashi no maryoku dewa mitoosenai fukai kiri no naka ni aru wa. Omise ni iru sensei-tachi ni chokusetsu soudan suru koto wo osusume suru nya."

\* line 146: ごめんなさい、魔力の源が見つからないニャ…。設定を確認してほしいニャ。
NoKeyFallback ==
  <<"Gomennasai, maryoku no minamoto ga mitsukaranai nya... Settei wo kakunin shite hoshii nya.">>

\* lines 157, 168, 171: すみません、今は魔力が弱まっているようです。
\* 少し時間をおいてからもう一度お試しください。ニャ〜
WeakenedFallback ==
  <<"Sumimasen, ima wa maryoku ga yowamatte iru you desu. Sukoshi jikan wo oite kara mou ichido otameshi kudasai. Nya~">>

\* mutant: the URL is not interpolated into the reply
EscalationText_withoutUrl(reservation_url) == <<EscalationSentence>>

\* line 180: the f-string of the escalation reply
EscalationText(reservation_url) == <<EscalationSentence>> \o reservation_url

\* lines 73-84: SYSTEM_PROMPT, the f-string with SHOP_NAME and RESERVATION_URL
\* interpolated; the text around the interpolations is one fragment each
SystemPrompt(shop_name, reservation_url) ==
  <<"Anata wa uranai-ten [">> \o shop_name
    \o <<"] no [Kuroneko no Runa] desu. (persona, tarot, tone) Tadashi, shinkoku na kiiwaado ga fukumareru baai wa, [">>
    \o EscalationText(reservation_url)
    \o <<"] to kaitou shi, raiten wo unagashite kudasai. (keyword list) Kaitou wa 100 moji ijou 300 moji inai.">>

\* line 151: the prompt sent to the backend
FullPrompt(shop_name, reservation_url, user_message) ==
  SystemPrompt(shop_name, reservation_url)
    \o <<"\n\n", "Yuuzaa kara no soudan: ">> \o user_message

(***************************************************************************)
(* Utility functions (src/app.py 102-119).                                 *)
(***************************************************************************)
\* line 103: hashlib.sha256(user_id.encode()).hexdigest()[:16], tabulated for
\* the user ids of the model
hash_user_id(user_id) ==
  CASE user_id = "U4af4980629" -> "b940048f7d71f7b8"
    [] user_id = "Udeadbeef01" -> "4fde3d83ea71029a"

\* lines 108-111: the loop over CATEGORY_KEYWORDS.items() from entry n on
RECURSIVE CategoryFrom(_, _)
CategoryFrom(n, text_lower) ==
  IF n > Len(CATEGORY_KEYWORDS) THEN "sonota"
  ELSE IF AnyKeywordIn(CATEGORY_KEYWORDS[n].keywords, text_lower)
         THEN CATEGORY_KEYWORDS[n].category
         ELSE CategoryFrom(n + 1, text_lower)

\* mutant: the loop keeps the last matching label instead of returning the first
RECURSIVE LastCategoryFrom(_, _, _)
LastCategoryFrom(n, text_lower, found) ==
  IF n > Len(CATEGORY_KEYWORDS) THEN found
  ELSE LastCategoryFrom(n + 1, text_lower,
         IF AnyKeywordIn(CATEGORY_KEYWORDS[n].keywords, text_lower)
           THEN CATEGORY_KEYWORDS[n].category
           ELSE found)

estimate_category_lastMatch(text) == LastCategoryFrom(1, Lower(text), "sonota")

\* lines 106-111
estimate_category(text) == CategoryFrom(1, Lower(text))

\* mutant: keyword == text instead of keyword in text
contains_critical_keywords_equal(text) ==
  \E n \in 1..Len(CRITICAL_KEYWORDS) : CRITICAL_KEYWORDS[n] = text

\* lines 114-115: on the raw text, no lower()
contains_critical_keywords(text) == AnyKeywordIn(CRITICAL_KEYWORDS, text)

\* line 118: the default of max_length
max_length == 50

\* lines 118-119
summarize_concern(text) ==
  IF Len(text) > max_length
    THEN SubSeq(text, 1, max_length) \o <<".", ".", ".">>
    ELSE text

(***************************************************************************)
(* The log record (src/app.py 126-137).                                    *)
(***************************************************************************)
\* line 137: json.dumps on a str: a line break inside the text is escaped, so
\* the serialised record holds no line break of its own
JsonString(text) ==
  [i \in 1..Len(text) |->
     IF text[i] = "\n" THEN "\\n" ELSE IF text[i] = "\t" THEN "\\t" ELSE text[i]]

\* mutant: the record is built without its concern summary
LogData_withoutSummary(now, uid, message, response, cat, critical) ==
  << <<"timestamp", now>>,
     <<"user_id_hash", hash_user_id(uid)>>,
     <<"category", cat>>,
     <<"user_message", message>>,
     <<"bot_response", response>>,
     <<"is_critical", critical>> >>

\* lines 126-134: log_data, the dict in insertion order
LogData(now, uid, message, response, cat, critical) ==
  << <<"timestamp", now>>,
     <<"user_id_hash", hash_user_id(uid)>>,
     <<"category", cat>>,
     <<"concern_summary", summarize_concern(message)>>,
     <<"user_message", message>>,
     <<"bot_response", response>>,
     <<"is_critical", critical>> >>

\* json.dumps(log_data, ensure_ascii=False): the members in order, each value
\* in its JSON form
JsonDumps(log_data) ==
  [i \in 1..Len(log_data) |->
     <<log_data[i][1],
       CASE log_data[i][1] \in {"concern_summary", "user_message", "bot_response"}
              -> JsonString(log_data[i][2])
         [] log_data[i][1] = "is_critical"
              -> (IF log_data[i][2] THEN "true" ELSE "false")
         [] OTHER -> log_data[i][2]>>]

\* line 137: what the first write of print() puts on stdout
RecordLine(log_data) == [tag |-> "[CONVERSATION_LOG] ", json |-> JsonDumps(log_data)]

\* print()'s second write: end="\n"
EndOfLine == [tag |-> "\n", json |-> <<>>]

(***************************************************************************)
(* The backend (google.generativeai), a black box: what one                *)
(* generate_content call hands back, by the attributes the code reads.     *)
(***************************************************************************)
\* model.generate_content(...) (or GenerativeModel(...)) raised
Raised == [kind |-> "raise", text_attr |-> "absent", text |-> <<>>, candidates |-> <<>>]
\* a falsy response object
NoResponse == [kind |-> "none", text_attr |-> "absent", text |-> <<>>, candidates |-> <<>>]
\* a response: text_attr says what reading response.text does ("absent":
\* AttributeError, so hasattr is False; "raises": another exception, as the
\* library's ValueError for a blocked answer; "value": text)
Response(text_attr, text, candidates) ==
  [kind |-> "response", text_attr |-> text_attr, text |-> text, candidates |-> candidates]
\* a candidate, by hasattr(candidate, 'content'), hasattr(content, 'parts'), parts
Candidate(has_content, has_parts, parts) ==
  [has_content |-> has_content, has_parts |-> has_parts, parts |-> parts]
\* a part, by whether it has .text
Part(has_text, text) == [has_text |-> has_text, text |-> text]

\* no call made (yet)
NotCalled == [kind |-> "not_called", text_attr |-> "absent", text |-> <<>>, candidates |-> <<>>]

Advice == "Gusha no kaado ga dete iru wa. Atarashii ippo wo fumidasu toki da nya."
Advice2 == "Hoshi no kaado ga kibou wo shimeshite iru wa."

\* the texts a response may carry; the backend was sent the prompt, so the
\* escalation sentence with the configured URL is one of them
BackendTexts(reservation_url) ==
  { <<>>, <<" ", "\n">>, <<" ", Advice, "\n">>, <<Advice, "\n", Advice2>>,
    EscalationText(reservation_url) }

BackendParts ==
  { Part(FALSE, <<>>), Part(TRUE, <<>>), Part(TRUE, <<"\n", Advice2, " ">>) }

BackendCandidateLists ==
  { <<>> }
    \cup { <<Candidate(FALSE, FALSE, <<>>)>>,
           <<Candidate(TRUE, FALSE, <<>>)>>,
           <<Candidate(TRUE, TRUE, <<>>)>> }
    \cup { <<Candidate(TRUE, TRUE, <<p>>)>> : p \in BackendParts }
    \cup { <<Candidate(TRUE, TRUE, <<Part(TRUE, <<Advice>>)>>),
             Candidate(TRUE, TRUE, <<Part(TRUE, <<Advice2>>)>>)>> }

\* every shape of outcome the code distinguishes
BackendOutcomes(reservation_url) ==
  { Raised, NoResponse }
    \cup { Response("absent", <<>>, c) : c \in BackendCandidateLists }
    \cup { Response("raises", <<>>, c) : c \in BackendCandidateLists }
    \cup { Response("value", x, c) :
             x \in BackendTexts(reservation_url), c \in BackendCandidateLists }

\* the outcomes drawn where several turns run at once
FewOutcomes ==
  { Raised, Response("value", <<" ", Advice, "\n">>,
                     <<Candidate(TRUE, TRUE, <<Part(TRUE, <<" ", Advice, "\n">>)>>)>>) }

\* lines 147-171: what get_gemini_response returns for an outcome of the call,
\* and the logger.error entry it makes (None: no entry)
GeminiResult(o) ==
  IF o.kind = "raise"
    THEN [text |-> WeakenedFallback, error |-> "Gemini API error"]            \* 169-171
  ELSE IF o.kind = "none" \/ o.candidates = <<>>
    THEN [text |-> WeakenedFallback, error |-> "Gemini API: empty response"]  \* 155-157
  ELSE IF o.text_attr = "raises"
    THEN [text |-> WeakenedFallback, error |-> "Gemini API error"]            \* 160, 169-171
  ELSE IF o.text_attr = "value" /\ o.text # <<>>
    THEN [text |-> Strip(o.text), error |-> None]                            \* 160-161
  ELSE IF o.candidates # <<>> /\ Len(o.candidates) > 0                       \* 162
    THEN LET candidate == o.candidates[1]                                    \* 163
         IN  IF candidate.has_content /\ candidate.has_parts
                  /\ candidate.parts # <<>>                                  \* 164
               THEN IF candidate.parts[1].has_text
                      THEN [text |-> Strip(candidate.parts[1].text), error |-> None]  \* 165
                      ELSE [text |-> WeakenedFallback, error |-> "Gemini API error"]  \* 165, 169-171
               ELSE [text |-> WeakenedFallback,
                     error |-> "Gemini API: cannot extract text"]            \* 167-168
  ELSE [text |-> WeakenedFallback, error |-> "Gemini API: cannot extract text"]

(***************************************************************************)
(* Inputs of the model.                                                    *)
(***************************************************************************)
UserIds == {"U4af4980629", "Udeadbeef01"}

\* 彼氏と喧嘩しました
ScenarioA == <<"u5F7C", "u6C0F", "u3068", "u55A7", "u5629", "u3057", "u307E", "u3057", "u305F">>
\* 夫と離婚したい
ScenarioB == <<"u592B", "u3068", "u96E2", "u5A5A", "u3057", "u305F", "u3044">>
\* 鬱でつらい: no critical keyword, no category keyword
Depressed == <<"u9B31", "u3067", "u3064", "u3089", "u3044">>
\* 51 characters: あ x 49, then 仕事
LongMessage == [i \in 1..51 |-> IF i = 50 THEN "u4ED5" ELSE IF i = 51 THEN "u4E8B" ELSE "u3042"]

Messages == { <<>>, ScenarioA, ScenarioB, Depressed, LongMessage }
FewMessages == { ScenarioA, ScenarioB }

ApiKeys == { None, "", "AIza-key" }
ShopNames == { DefaultShopName, <<"Tsuki no yakata">> }
ReservationUrls == { DefaultReservationUrl, <<"https://luna.example/yoyaku">> }

\* the characters of the texts of SpecCategory:
\* 恋, 仕, 事, 親, お, 金, 給, 与, and a cased letter
CategoryChars == {"u604B", "u4ED5", "u4E8B", "u89AA", "u304A", "u91D1", "u7D66", "u4E0E", "A"}

RECURSIVE TextsUpTo(_)
TextsUpTo(n) ==
  IF n = 0 THEN { <<>> }
  ELSE LET shorter == TextsUpTo(n - 1)
       IN  shorter \cup { Append(s, c) : s \in shorter, c \in CategoryChars }

(***************************************************************************)
(* State.                                                                  *)
(***************************************************************************)
Turns == 1..MaxTurns

\* a local that has not been assigned
Unset == <<"<unset>">>

VARIABLES
  GEMINI_API_KEY,   \* line 45
  SHOP_NAME,        \* line 46
  RESERVATION_URL,  \* line 47
  pc,               \* where each turn is
  user_id,          \* handle_user_message's arguments and locals, per turn
  user_message,
  category,
  is_critical,
  bot_response,
  entered,          \* whether the turn entered get_gemini_response
  calls,            \* generate_content calls the turn made
  prompt,           \* the prompt of the call in flight
  backend,          \* what the call handed back
  log_fault,        \* where save_conversation_log's try block raised
  trace,            \* the steps of handle_user_message each turn has taken
  returned,         \* what handle_user_message returned
  reply,            \* what handle_text_message passed to reply_message
  diag,             \* the entries each turn put on the logging channel
  stdout,           \* the log sink: the writes of print(), in order
  clock,            \* datetime.now(): the number of readings so far
  cat_text,         \* SpecCategory: the argument of estimate_category
  cat_result        \* SpecCategory: its result

config == <<GEMINI_API_KEY, SHOP_NAME, RESERVATION_URL>>
locals == <<user_id, user_message, category, is_critical, bot_response>>
gemini == <<entered, calls, prompt, backend>>
pure == <<cat_text, cat_result>>
vars == <<config, pc, locals, gemini, log_fault, trace, returned, reply, diag, stdout, clock, pure>>

\* the state after import of the module: configuration read, no turn started
InitWith(keys, shops, urls, texts) ==
  /\ GEMINI_API_KEY \in keys
  /\ SHOP_NAME \in shops
  /\ RESERVATION_URL \in urls
  /\ pc = [t \in Turns |-> "idle"]
  /\ user_id = [t \in Turns |-> None]
  /\ user_message = [t \in Turns |-> Unset]
  /\ category = [t \in Turns |-> None]
  /\ is_critical = [t \in Turns |-> FALSE]
  /\ bot_response = [t \in Turns |-> Unset]
  /\ entered = [t \in Turns |-> FALSE]
  /\ calls = [t \in Turns |-> 0]
  /\ prompt = [t \in Turns |-> Unset]
  /\ backend = [t \in Turns |-> NotCalled]
  /\ log_fault = [t \in Turns |-> "none"]
  /\ trace = [t \in Turns |-> <<>>]
  /\ returned = [t \in Turns |-> Unset]
  /\ reply = [t \in Turns |-> Unset]
  /\ diag = [t \in Turns |-> <<>>]
  /\ stdout = <<>>
  /\ clock = 0
  /\ cat_text \in texts
  /\ cat_result = None

Init == InitWith(ApiKeys, ShopNames, ReservationUrls, { <<>> })

(***************************************************************************)
(* handle_text_message (src/app.py 206-219).                               *)
(***************************************************************************)
\* lines 209-214: a text message event arrives; the handler logs it and calls
\* handle_user_message(user_id, user_message)
Receive(t, ids, messages) ==
  /\ pc[t] = "idle"
  /\ \E uid \in ids, message \in messages :
       /\ user_id' = [user_id EXCEPT ![t] = uid]
       /\ user_message' = [user_message EXCEPT ![t] = message]
  /\ diag' = [diag EXCEPT ![t] = Append(@, "INFO message received")]
  /\ pc' = [pc EXCEPT ![t] = "estimate"]
  /\ UNCHANGED <<config, trace, category, is_critical, bot_response, gemini, log_fault,
                 returned, reply, stdout, clock, pure>>

(***************************************************************************)
(* handle_user_message (src/app.py 174-185).                               *)
(***************************************************************************)
\* line 176
EstimateCategory(t) ==
  /\ pc[t] = "estimate"
  /\ category' = [category EXCEPT ![t] = estimate_category(user_message[t])]
  /\ trace' = [trace EXCEPT ![t] = Append(@, "category")]
  /\ pc' = [pc EXCEPT ![t] = "detect"]
  /\ UNCHANGED <<config, user_id, user_message, is_critical, bot_response, gemini,
                 log_fault, returned, reply, diag, stdout, clock, pure>>

\* line 177
DetectCritical(t) ==
  /\ pc[t] = "detect"
  /\ is_critical' = [is_critical EXCEPT ![t] = contains_critical_keywords(user_message[t])]
  /\ trace' = [trace EXCEPT ![t] = Append(@, "critical")]
  /\ pc' = [pc EXCEPT ![t] = "branch"]
  /\ UNCHANGED <<config, user_id, user_message, category, bot_response, gemini,
                 log_fault, returned, reply, diag, stdout, clock, pure>>

\* lines 179-180
Escalate(t) ==
  /\ pc[t] = "branch"
  /\ is_critical[t]
  /\ bot_response' = [bot_response EXCEPT ![t] = EscalationText(RESERVATION_URL)]
  /\ trace' = [trace EXCEPT ![t] = Append(@, "response")]
  /\ pc' = [pc EXCEPT ![t] = "log"]
  /\ UNCHANGED <<config, user_id, user_message, category, is_critical, gemini,
                 log_fault, returned, reply, diag, stdout, clock, pure>>

\* lines 181-182: the call of get_gemini_response(user_message)
CallGenerator(t) ==
  /\ pc[t] = "branch"
  /\ ~is_critical[t]
  /\ entered' = [entered EXCEPT ![t] = TRUE]
  /\ pc' = [pc EXCEPT ![t] = "gemini"]
  /\ UNCHANGED <<config, trace, locals, calls, prompt, backend, log_fault, returned, reply,
                 diag, stdout, clock, pure>>

\* line 185, and lines 214-219 of handle_text_message: the response is
\* returned and goes to reply_message
Return(t) ==
  /\ pc[t] = "return"
  /\ returned' = [returned EXCEPT ![t] = bot_response[t]]
  /\ reply' = [reply EXCEPT ![t] = bot_response[t]]
  /\ trace' = [trace EXCEPT ![t] = Append(@, "return")]
  /\ pc' = [pc EXCEPT ![t] = "done"]
  /\ UNCHANGED <<config, locals, gemini, log_fault, diag, stdout, clock, pure>>

(***************************************************************************)
(* get_gemini_response (src/app.py 142-171).                               *)
(***************************************************************************)
\* lines 144-146
GeminiNoKey(t) ==
  /\ pc[t] = "gemini"
  /\ ~Truthy(GEMINI_API_KEY)
  /\ diag' = [diag EXCEPT ![t] = Append(@, "ERROR Gemini API key not set")]
  /\ bot_response' = [bot_response EXCEPT ![t] = NoKeyFallback]
  /\ trace' = [trace EXCEPT ![t] = Append(@, "response")]
  /\ pc' = [pc EXCEPT ![t] = "log"]
  /\ UNCHANGED <<config, user_id, user_message, category, is_critical, gemini,
                 log_fault, returned, reply, stdout, clock, pure>>

\* mutant: the call is made without the check of the key
GeminiSend_withoutKeyCheck(t) ==
  /\ pc[t] = "gemini"
  /\ prompt' = [prompt EXCEPT ![t] = FullPrompt(SHOP_NAME, RESERVATION_URL, user_message[t])]
  /\ calls' = [calls EXCEPT ![t] = @ + 1]
  /\ pc' = [pc EXCEPT ![t] = "awaiting"]
  /\ UNCHANGED <<config, trace, locals, entered, backend, log_fault, returned, reply,
                 diag, stdout, clock, pure>>

\* lines 147-152: the prompt is built and generate_content is called
GeminiSend(t) ==
  /\ pc[t] = "gemini"
  /\ Truthy(GEMINI_API_KEY)
  /\ prompt' = [prompt EXCEPT ![t] = FullPrompt(SHOP_NAME, RESERVATION_URL, user_message[t])]
  /\ calls' = [calls EXCEPT ![t] = @ + 1]
  /\ pc' = [pc EXCEPT ![t] = "awaiting"]
  /\ UNCHANGED <<config, trace, locals, entered, backend, log_fault, returned, reply,
                 diag, stdout, clock, pure>>

\* lines 152-171: the call comes back (a response or an exception) and the
\* function returns the text or a fallback
GeminiReceive(t, outcomes) ==
  /\ pc[t] = "awaiting"
  /\ \E o \in outcomes :
       /\ backend' = [backend EXCEPT ![t] = o]
       /\ bot_response' = [bot_response EXCEPT ![t] = GeminiResult(o).text]
       /\ diag' = [diag EXCEPT ![t] =
                     IF GeminiResult(o).error = None THEN @
                     ELSE Append(@, "ERROR " \o GeminiResult(o).error)]
  /\ trace' = [trace EXCEPT ![t] = Append(@, "response")]
  /\ pc' = [pc EXCEPT ![t] = "log"]
  /\ UNCHANGED <<config, user_id, user_message, category, is_critical, entered, calls,
                 prompt, log_fault, returned, reply, stdout, clock, pure>>

(***************************************************************************)
(* save_conversation_log (src/app.py 123-139).  print(s) is two writes to  *)
(* sys.stdout, s and then the line end; another thread's write may come    *)
(* between them.                                                           *)
(***************************************************************************)
\* mutant: user_message and bot_response are passed in each other's place
PrintRecord_argumentsSwapped(t) ==
  /\ pc[t] = "log"
  /\ stdout' = Append(stdout,
       [by |-> t,
        line |-> RecordLine(LogData(clock, user_id[t], bot_response[t],
                                    user_message[t], category[t], is_critical[t]))])
  /\ clock' = clock + 1
  /\ trace' = [trace EXCEPT ![t] = Append(@, "record")]
  /\ pc' = [pc EXCEPT ![t] = "print_end"]
  /\ UNCHANGED <<config, locals, gemini, log_fault, returned, reply, diag, pure>>

\* lines 126-137: log_data is built and print() writes the record
PrintRecord(t) ==
  /\ pc[t] = "log"
  /\ stdout' = Append(stdout,
       [by |-> t,
        line |-> RecordLine(LogData(clock, user_id[t], user_message[t],
                                    bot_response[t], category[t], is_critical[t]))])
  /\ clock' = clock + 1
  /\ trace' = [trace EXCEPT ![t] = Append(@, "record")]
  /\ pc' = [pc EXCEPT ![t] = "print_end"]
  /\ UNCHANGED <<config, locals, gemini, log_fault, returned, reply, diag, pure>>

\* mutant: no try/except, the exception leaves handle_user_message
PrintRecordFails_propagates(t) ==
  /\ pc[t] = "log"
  /\ log_fault' = [log_fault EXCEPT ![t] = "record"]
  /\ pc' = [pc EXCEPT ![t] = "raised"]
  /\ UNCHANGED <<config, trace, locals, gemini, returned, reply, diag, stdout, clock, pure>>

\* lines 126-139: building, serialising or writing the record raises (an id or
\* a text that cannot be encoded, a closed stream): nothing reaches stdout
PrintRecordFails(t) ==
  /\ pc[t] = "log"
  /\ log_fault' = [log_fault EXCEPT ![t] = "record"]
  /\ diag' = [diag EXCEPT ![t] = Append(@, "ERROR log output error")]
  /\ pc' = [pc EXCEPT ![t] = "return"]
  /\ UNCHANGED <<config, trace, locals, gemini, returned, reply, stdout, clock, pure>>

\* line 137: print() writes the line end
PrintEnd(t) ==
  /\ pc[t] = "print_end"
  /\ stdout' = Append(stdout, [by |-> t, line |-> EndOfLine])
  /\ pc' = [pc EXCEPT ![t] = "return"]
  /\ UNCHANGED <<config, trace, locals, gemini, log_fault, returned, reply, diag, clock, pure>>

\* lines 137-139: the write of the line end raises
PrintEndFails(t) ==
  /\ pc[t] = "print_end"
  /\ log_fault' = [log_fault EXCEPT ![t] = "end"]
  /\ diag' = [diag EXCEPT ![t] = Append(@, "ERROR log output error")]
  /\ pc' = [pc EXCEPT ![t] = "return"]
  /\ UNCHANGED <<config, trace, locals, gemini, returned, reply, stdout, clock, pure>>

(***************************************************************************)
(* Spec: one turn, with every configuration, message, backend outcome and  *)
(* logging fault.                                                          *)
(***************************************************************************)
Next ==
  \/ Receive(1, UserIds, Messages)
  \/ EstimateCategory(1)
  \/ DetectCritical(1)
  \/ Escalate(1)
  \/ CallGenerator(1)
  \/ GeminiNoKey(1)
  \/ GeminiSend(1)
  \/ GeminiReceive(1, BackendOutcomes(RESERVATION_URL))
  \/ PrintRecord(1)
  \/ PrintRecordFails(1)
  \/ PrintEnd(1)
  \/ PrintEndFails(1)
  \/ Return(1)

Spec == Init /\ [][Next]_vars

\* the interpreter runs a started turn on, and the backend call comes back
FairSpec == Spec /\ WF_vars(Next)

(***************************************************************************)
(* SpecConc: MaxTurns turns at once (the server handles each request on a  *)
(* thread of its own), in every interleaving of their steps.               *)
(***************************************************************************)
InitConc == InitWith(ApiKeys, {DefaultShopName}, {DefaultReservationUrl}, { <<>> })

NextConc ==
  \E t \in Turns :
    \/ Receive(t, UserIds, FewMessages)
    \/ EstimateCategory(t)
    \/ DetectCritical(t)
    \/ Escalate(t)
    \/ CallGenerator(t)
    \/ GeminiNoKey(t)
    \/ GeminiSend(t)
    \/ GeminiReceive(t, FewOutcomes)
    \/ PrintRecord(t)
    \/ PrintRecordFails(t)
    \/ PrintEnd(t)
    \/ PrintEndFails(t)
    \/ Return(t)

SpecConc == InitConc /\ [][NextConc]_vars

(***************************************************************************)
(* SpecCategory: estimate_category applied to every text of at most MaxLen *)
(* characters over CategoryChars.                                          *)
(***************************************************************************)
InitCategory ==
  InitWith({None}, {DefaultShopName}, {DefaultReservationUrl}, TextsUpTo(MaxLen))

\* lines 106-111: the call estimate_category(cat_text)
ApplyEstimateCategory ==
  /\ cat_result = None
  /\ cat_result' = estimate_category(cat_text)
  /\ UNCHANGED <<config, trace, pc, locals, gemini, log_fault, returned, reply, diag,
                 stdout, clock, cat_text>>

NextCategory == ApplyEstimateCategory

SpecCategory == InitCategory /\ [][NextCategory]_vars

(***************************************************************************)
(* Vocabulary of the properties.                                           *)
(***************************************************************************)
\* the turn has its response (get_gemini_response returned, or the escalation
\* text was built)
Responded(t) == pc[t] \in {"log", "print_end", "return", "done"}

Completed(t) == pc[t] = "done"

\* the message holds a critical keyword as a substring
HasCriticalKeyword(message) ==
  \E n \in DOMAIN CRITICAL_KEYWORDS : Contains(CRITICAL_KEYWORDS[n], message)

\* the fixed escalation template with the configured URL appended
Escalation == <<EscalationSentence>> \o RESERVATION_URL

\* the writes on stdout that are records, and those of turn t
IsRecord(w) == w.line.tag = "[CONVERSATION_LOG] "
Records == { i \in DOMAIN stdout : IsRecord(stdout[i]) }
RecordsBy(t) == { i \in Records : stdout[i].by = t }

\* the value of a member of a serialised record
JsonGet(json, key) == json[CHOOSE i \in DOMAIN json : json[i][1] = key][2]
JsonKeys(json) == [i \in DOMAIN json |-> json[i][1]]

SevenFields ==
  <<"timestamp", "user_id_hash", "category", "concern_summary", "user_message",
    "bot_response", "is_critical">>

\* the text a backend outcome carries: response.text when it can be read and
\* is not empty, else the text of the first part of the first candidate
BackendText(o) ==
  IF o.kind # "response" \/ o.candidates = <<>> \/ o.text_attr = "raises" THEN <<>>
  ELSE IF o.text_attr = "value" /\ o.text # <<>> THEN o.text
  ELSE IF o.candidates[1].has_content /\ o.candidates[1].has_parts
            /\ o.candidates[1].parts # <<>> /\ o.candidates[1].parts[1].has_text
         THEN o.candidates[1].parts[1].text
         ELSE <<>>

\* the call yielded text
YieldsText(o) == BackendText(o) # <<>>

(***************************************************************************)
(* C1.  A turn whose message holds a critical keyword has the fixed        *)
(* escalation template with RESERVATION_URL appended as its response, and  *)
(* returns it; get_gemini_response is not entered and no backend call is   *)
(* made, whatever GEMINI_API_KEY is.                                       *)
(***************************************************************************)
C1_CriticalEscalates ==
  \A t \in Turns :
    (pc[t] \notin {"idle", "estimate", "detect", "branch"}
       /\ HasCriticalKeyword(user_message[t]))
      => /\ Responded(t)
         /\ bot_response[t] = Escalation
         /\ ~entered[t]
         /\ calls[t] = 0
         /\ backend[t] = NotCalled
         /\ Completed(t) => returned[t] = Escalation

\* a critical turn completed with a usable key configured
C1_Witness ==
  /\ Completed(1)
  /\ user_message[1] = ScenarioB
  /\ Truthy(GEMINI_API_KEY)
  /\ returned[1] = Escalation

(***************************************************************************)
(* C2.  As claimed: a completed turn returns the escalation text if and    *)
(* only if is_critical is true.                                            *)
(***************************************************************************)
C2_EscalationIffCritical ==
  \A t \in Turns :
    Completed(t) => (returned[t] = Escalation <=> is_critical[t])

(***************************************************************************)
(* C2, amended.  A critical turn returns the escalation text without       *)
(* entering the generator; a turn that is not critical returns the         *)
(* generator's result, and that is the escalation text only when the one   *)
(* backend call handed back that very text.                                *)
(***************************************************************************)
C2_EscalationFromBackendOnly ==
  \A t \in Turns :
    Completed(t) =>
      /\ is_critical[t] <=> HasCriticalKeyword(user_message[t])
      /\ is_critical[t] => returned[t] = Escalation /\ ~entered[t]
      /\ (~is_critical[t] /\ returned[t] = Escalation)
           => calls[t] = 1 /\ Strip(BackendText(backend[t])) = Escalation

\* Scenario A's message, not critical, answered by the backend with the
\* escalation text
C2_Witness ==
  /\ Completed(1)
  /\ user_message[1] = ScenarioA
  /\ ~is_critical[1]
  /\ category[1] # "sonota"
  /\ returned[1] = Escalation

(***************************************************************************)
(* C3.  With no credential (GEMINI_API_KEY unset or empty) no turn ever    *)
(* calls the backend, and every completed turn whose message holds no      *)
(* critical keyword has returned the "service unavailable" fallback.       *)
(***************************************************************************)
C3_NoKeyAlwaysFallback ==
  ~Truthy(GEMINI_API_KEY) =>
    \A t \in Turns :
      /\ calls[t] = 0
      /\ backend[t] = NotCalled
      /\ pc[t] # "awaiting"
      /\ (Completed(t) /\ ~HasCriticalKeyword(user_message[t]))
           => returned[t] = NoKeyFallback

\* without a key, every turn of the run completed on a message that is not
\* critical
C3_Witness ==
  /\ ~Truthy(GEMINI_API_KEY)
  /\ \A t \in Turns :
       Completed(t) /\ user_message[t] = ScenarioA /\ returned[t] = NoKeyFallback

(***************************************************************************)
(* C4.  With a credential, after the one backend call of a turn:           *)
(* get_gemini_response returns the "weakened magic" fallback when the call *)
(* yielded no text, and the trimmed backend text only when it yielded      *)
(* text.                                                                   *)
(***************************************************************************)
C4_FallbackUnlessText ==
  \A t \in Turns :
    (Responded(t) /\ entered[t] /\ Truthy(GEMINI_API_KEY)) =>
      /\ calls[t] = 1
      /\ ~YieldsText(backend[t]) => bot_response[t] = WeakenedFallback
      /\ YieldsText(backend[t]) => bot_response[t] = Strip(BackendText(backend[t]))

(***************************************************************************)
(* C5.  As claimed: every completed turn has put exactly one record on     *)
(* stdout.                                                                 *)
(***************************************************************************)
C5_ExactlyOneRecordPerTurn ==
  \A t \in Turns : Completed(t) => Cardinality(RecordsBy(t)) = 1

(***************************************************************************)
(* C5, amended.  A turn puts at most one record on stdout, and exactly one *)
(* once it is past save_conversation_log unless building or writing the    *)
(* record raised, in which case it puts none; every record holds the seven *)
(* fields; stdout holds as many records as there are turns whose record    *)
(* was written.                                                            *)
(***************************************************************************)
C5_OneRecordUnlessLoggingFails ==
  /\ \A t \in Turns :
       /\ Cardinality(RecordsBy(t)) <= 1
       /\ pc[t] \in {"print_end", "return", "done"}
            => (Cardinality(RecordsBy(t)) = 1 <=> log_fault[t] # "record")
       /\ pc[t] \notin {"print_end", "return", "done"} => RecordsBy(t) = {}
  /\ \A i \in Records : JsonKeys(stdout[i].line.json) = SevenFields
  /\ Cardinality(Records)
       = Cardinality({ t \in Turns : pc[t] \in {"print_end", "return", "done"}
                                       /\ log_fault[t] # "record" })

\* two completed turns, the first of which lost its record
C5_Witness ==
  /\ Completed(1) /\ Completed(2)
  /\ log_fault[1] = "record" /\ log_fault[2] = "none"
  /\ RecordsBy(1) = {}
  /\ Cardinality(Records) = 1

(***************************************************************************)
(* C6.  A turn in which save_conversation_log raised goes on to return:    *)
(* the failure is on the logging channel only, and the text returned is    *)
(* the text the turn had determined before logging, the one a turn with    *)
(* the same message, configuration and backend outcome returns when        *)
(* logging succeeds.                                                       *)
(***************************************************************************)
ResponseFor(t) ==
  IF HasCriticalKeyword(user_message[t]) THEN Escalation
  ELSE IF ~Truthy(GEMINI_API_KEY) THEN NoKeyFallback
  ELSE GeminiResult(backend[t]).text

C6_LoggingFailureAbsorbed ==
  \A t \in Turns :
    /\ pc[t] \in {"idle", "estimate", "detect", "branch", "gemini", "awaiting",
                  "log", "print_end", "return", "done"}
    /\ log_fault[t] # "none" =>
         /\ pc[t] \in {"return", "done"}
         /\ diag[t][Len(diag[t])] = "ERROR log output error"
         /\ bot_response[t] = ResponseFor(t)
         /\ Completed(t) => returned[t] = ResponseFor(t) /\ reply[t] = ResponseFor(t)
    /\ (Completed(t) /\ log_fault[t] = "none") => returned[t] = ResponseFor(t)

\* a completed turn whose record was lost and whose answer is the backend's
C6_Witness ==
  /\ Completed(1)
  /\ log_fault[1] = "record"
  /\ stdout = <<>>
  /\ returned[1] = <<Advice>>

(***************************************************************************)
(* C7.  As claimed: a completed turn has returned a generated advisory     *)
(* (the trimmed text of a backend call that yielded text), the escalation  *)
(* message, or one of the two fallbacks.                                   *)
(***************************************************************************)
C7_ResponseIsAdvisoryEscalationOrFallback ==
  \A t \in Turns :
    Completed(t) =>
      \/ returned[t] \in {Escalation, NoKeyFallback, WeakenedFallback}
      \/ YieldsText(backend[t]) /\ returned[t] = Strip(BackendText(backend[t]))

\* the rest of C7: a turn that was invoked completes
C7_TurnCompletes == (pc[1] = "estimate") ~> Completed(1)

(***************************************************************************)
(* C8.  estimate_category returns the first label, in the order 恋愛, 仕事, *)
(* 家庭, 人間関係, 金銭, 健康, one of whose keywords is a substring of the  *)
(* case-folded text, and その他 when no label has one.                      *)
(***************************************************************************)
DeclaredOrder == <<"renai", "shigoto", "katei", "ningenkankei", "kinsen", "kenko">>

KeywordsOf(label) ==
  CATEGORY_KEYWORDS[CHOOSE n \in DOMAIN CATEGORY_KEYWORDS :
                      CATEGORY_KEYWORDS[n].category = label].keywords

LabelMatches(label, text) ==
  \E n \in DOMAIN KeywordsOf(label) : Contains(KeywordsOf(label)[n], Lower(text))

C8_FirstMatchingCategory ==
  cat_result # None =>
    \/ \E n \in DOMAIN DeclaredOrder :
         /\ LabelMatches(DeclaredOrder[n], cat_text)
         /\ \A m \in 1..(n - 1) : ~LabelMatches(DeclaredOrder[m], cat_text)
         /\ cat_result = DeclaredOrder[n]
    \/ /\ \A n \in DOMAIN DeclaredOrder : ~LabelMatches(DeclaredOrder[n], cat_text)
       /\ cat_result = "sonota"

\* 仕事 and then 恋 in one text: the earlier label wins
C8_Witness ==
  /\ cat_text = <<"u4ED5", "u4E8B", "u604B">>
  /\ cat_result = "renai"

(***************************************************************************)
(* C9.  The steps of a turn come in the order category, criticality,       *)
(* response, record, return (no record when logging raised before the      *)
(* write); a record is on stdout only after the response is determined and *)
(* is written before the return; its bot_response, category and            *)
(* is_critical are the response the turn returns and the category and      *)
(* verdict of the turn's own message.                                      *)
(***************************************************************************)
IsPrefix(s, full) == Len(s) <= Len(full) /\ \A i \in DOMAIN s : s[i] = full[i]

C9_StepOrderAndRecord ==
  \A t \in Turns :
    /\ IF log_fault[t] = "record"
         THEN IsPrefix(trace[t], <<"category", "critical", "response", "return">>)
         ELSE IsPrefix(trace[t], <<"category", "critical", "response", "record", "return">>)
    /\ Completed(t) <=> (trace[t] # <<>> /\ trace[t][Len(trace[t])] = "return")
    /\ \A i \in RecordsBy(t) :
         LET json == stdout[i].line.json
         IN  /\ Responded(t) /\ pc[t] # "log"
             /\ JsonGet(json, "bot_response") = JsonString(bot_response[t])
             /\ JsonGet(json, "category") = estimate_category(user_message[t])
             /\ JsonGet(json, "is_critical")
                  = (IF HasCriticalKeyword(user_message[t]) THEN "true" ELSE "false")
             /\ JsonGet(json, "user_message") = JsonString(user_message[t])
             /\ Completed(t) => JsonGet(json, "bot_response") = JsonString(returned[t])

\* a completed generated turn with its record on stdout
C9_Witness ==
  /\ Completed(1)
  /\ trace[1] = <<"category", "critical", "response", "record", "return">>
  /\ RecordsBy(1) # {}
  /\ returned[1] = <<Advice, "\n", Advice2>>

(***************************************************************************)
(* C10.  As claimed: with turns running at once, no turn touches what      *)
(* another writes.  What a turn returns and what its record says come from *)
(* the turn's own user id, message and backend outcome, and stdout is what *)
(* the turns put there one at a time: whole record lines, each line end    *)
(* directly after the record of the turn that wrote it.                    *)
(***************************************************************************)
\* the half that holds
C10_TurnsReadOnlyTheirOwnData ==
  \A t \in Turns :
    /\ Responded(t) => bot_response[t] = ResponseFor(t)
    /\ Completed(t) => returned[t] = ResponseFor(t)
    /\ \A i \in RecordsBy(t) :
         stdout[i].line
           = RecordLine(LogData(JsonGet(stdout[i].line.json, "timestamp"),
                                user_id[t], user_message[t], ResponseFor(t),
                                estimate_category(user_message[t]),
                                HasCriticalKeyword(user_message[t])))

\* the half that does not
C10_LineEndFollowsOwnRecord ==
  \A i \in DOMAIN stdout :
    stdout[i].line = EndOfLine =>
      /\ i > 1
      /\ IsRecord(stdout[i - 1])
      /\ stdout[i - 1].by = stdout[i].by

C10_TurnsAreIsolated ==
  /\ C10_TurnsReadOnlyTheirOwnData
  /\ C10_LineEndFollowsOwnRecord

====
